---- MODULE Spec2Model ----
(***************************************************************************)
(* Model of crawlera_session/__init__.py: the session map and locked set   *)
(* of CrawleraSessionMixinSpider, RequestSession's session assignment, and *)
(* the scheduler wrapper installed by CrawleraSessionCookiesMiddleware.    *)
(*                                                                         *)
(* A request is built by a spider callback (create, then any of            *)
(* init_request / assign_crawlera_session / defer marking), handed to the  *)
(* scheduler, pulled through the wrapped next_request, passed through      *)
(* process_request, downloaded, passed through process_response and        *)
(* finally handled by a spider callback (which may unlock the session and  *)
(* bind follow-up requests to the response's cookiejar).                   *)
(***************************************************************************)
EXTENDS Integers, Sequences, FiniteSets, TLC

\* ---------------------------------------------------------------- bounds
\* Number of Request objects a run may construct.
MaxRequests == 3
\* Largest value configured for MAX_PARALLEL_CRAWLERA_SESSIONS.
MaxCapacity == 2
\* Number of session-API calls a callback may make on one request it builds.
MaxOps == 2
\* Number of Request objects in the runs of a session shared by the requests
\* a callback under follow_session yields (SpecFollow).
MaxFollowRequests == 4

\* str(uuid.uuid1()) values, numbered in order of generation. A request gets
\* at most one generated key, so MaxRequests keys are enough.
Keys == 1..MaxRequests
\* 'cookiejar' not in request.meta
NoKey == 0
\* Values of the X-Crawlera-Session header minted by the server.
ServerTokens == {"s1", "s2"}
\* 'X-Crawlera-Session' not in headers
NoHeader == "none"
\* MAX_PARALLEL_CRAWLERA_SESSIONS: <<>> is None, <<n>> is the integer n.
Capacities == {<<>>} \cup {<<n>> : n \in 1..MaxCapacity}

\* RequestSession(crawlera_session=True): the constructor's default, under
\* which session ids are attached to requests.
crawlera_session == TRUE

VARIABLES
    MAX_PARALLEL_CRAWLERA_SESSIONS,
    crawlera_sessions,      \* spider.crawlera_sessions: cookiejar -> session
    locked_sessions,        \* spider.locked_sessions
    retained_requests,      \* middleware.retained_requests (list)
    scheduler,              \* requests held by the original scheduler
    stage,                  \* where each request is in its life
    cookiejar,              \* request.meta['cookiejar'] or NoKey
    session_header,         \* request.headers['X-Crawlera-Session'] or NoHeader
    adapted,                \* _adapt_request has written its headers
    defer_assign,           \* 'defer_assign_crawlera_session' in request.meta
    response_session,       \* X-Crawlera-Session of the request's response
    next_uuid,              \* next key uuid.uuid1() hands out
    ops,                    \* session-API calls made on the request being built
    no_unlocked_sessions,   \* stats 'crawlera_sessions/no_unlocked_sessions'
    closed,                 \* spider_closed has run
    assert_failed,          \* spider_closed's assertion failed
    last_call,              \* the last call made and how it ended
    pulled,                 \* requests the original next_request has handed out
    times_returned,         \* how often the wrapped next_request returned each request
    spider_idle,            \* the engine's call of next_request got None and found the spider idle
    was_retained,           \* requests that have been appended to retained_requests
    orig_calls,             \* calls of the original next_request made by the last
                            \* call of the wrapped one
    keyless_run             \* number of session operations so far if all of them were
                            \* assign_crawlera_session calls without cookiejar on
                            \* requests without one; -1 once anything else happened

vars == << MAX_PARALLEL_CRAWLERA_SESSIONS, crawlera_sessions,
           locked_sessions, retained_requests, scheduler, stage, cookiejar,
           session_header, adapted, defer_assign, response_session, next_uuid,
           ops, no_unlocked_sessions, closed, assert_failed, last_call,
           pulled, times_returned, spider_idle, was_retained, orig_calls,
           keyless_run >>

config_vars == << MAX_PARALLEL_CRAWLERA_SESSIONS >>
pool_vars == << crawlera_sessions, locked_sessions >>
request_vars == << cookiejar, session_header, adapted, next_uuid >>
gate_vars == << retained_requests, scheduler, pulled, times_returned,
               was_retained >>

NoCall == [op |-> "none", req |-> 0, arg |-> NoKey, result |-> "none"]

\* The Request objects of the run.
Requests == DOMAIN stage

\* The state after the spider and the middlewares are constructed, for a run
\* that constructs the Request objects requests.
InitWith(requests) ==
    /\ MAX_PARALLEL_CRAWLERA_SESSIONS \in Capacities
    /\ crawlera_sessions = << >>
    /\ locked_sessions = {}
    /\ retained_requests = << >>
    /\ scheduler = {}
    /\ stage = [r \in requests |-> "new"]
    /\ cookiejar = [r \in requests |-> NoKey]
    /\ session_header = [r \in requests |-> NoHeader]
    /\ adapted = [r \in requests |-> FALSE]
    /\ defer_assign = [r \in requests |-> FALSE]
    /\ response_session = [r \in requests |-> NoHeader]
    /\ next_uuid = 1
    /\ ops = 0
    /\ no_unlocked_sessions = 0
    /\ closed = FALSE
    /\ assert_failed = FALSE
    /\ last_call = NoCall
    /\ pulled = {}
    /\ times_returned = [r \in requests |-> 0]
    /\ spider_idle = FALSE
    /\ was_retained = {}
    /\ orig_calls = 0
    /\ keyless_run = 0

Init == InitWith(1..MaxRequests)

\* ------------------------------------------------- CrawleraSessionMixinSpider
can_add_new_sessions ==
    \/ MAX_PARALLEL_CRAWLERA_SESSIONS = << >>
    \/ Cardinality(DOMAIN crawlera_sessions) < MAX_PARALLEL_CRAWLERA_SESSIONS[1]

\* Mutant of available_sessions: the locked sessions are not filtered out.
available_sessions_unfiltered == DOMAIN crawlera_sessions

available_sessions == (DOMAIN crawlera_sessions) \ locked_sessions

\* Mutant of setdefault: the value is stored even when the key is present.
setdefault_overwriting(key, value) ==
    [k \in (DOMAIN crawlera_sessions) \cup {key} |->
        IF k = key THEN value ELSE crawlera_sessions[k]]

\* dict.setdefault(key, value) on spider.crawlera_sessions
setdefault(key, value) ==
    IF key \in DOMAIN crawlera_sessions
    THEN crawlera_sessions
    ELSE [k \in (DOMAIN crawlera_sessions) \cup {key} |->
            IF k = key THEN value ELSE crawlera_sessions[k]]

\* ------------------------------------------------------------ RequestSession
\* _adapt_request: x_crawlera_cookies defaults to 'disable', so at least the
\* X-Crawlera-Cookies header is written.
adapt_request(r) == [adapted EXCEPT ![r] = TRUE]

\* Mutant of init_request: a cookiejar is generated even when the request has one.
init_request_overwriting(r) ==
    /\ cookiejar' = [cookiejar EXCEPT ![r] = next_uuid]
    /\ next_uuid' = next_uuid + 1
    /\ session_header' = IF crawlera_session
                         THEN [session_header EXCEPT ![r] = "create"]
                         ELSE session_header
    /\ adapted' = adapt_request(r)

\* init_request(request): its effect on the request.
init_request(r) ==
    /\ cookiejar' = IF cookiejar[r] = NoKey
                    THEN [cookiejar EXCEPT ![r] = next_uuid]
                    ELSE cookiejar
    /\ next_uuid' = IF cookiejar[r] = NoKey THEN next_uuid + 1 ELSE next_uuid
    /\ session_header' = IF crawlera_session
                         THEN [session_header EXCEPT ![r] = "create"]
                         ELSE session_header
    /\ adapted' = adapt_request(r)

\* assign_crawlera_session, lines 109-121: the request is given cookiejar cj.
assign_existing(r, cj, result) ==
    LET lookup == crawlera_session /\ session_header[r] = NoHeader IN
    IF lookup /\ cj \notin DOMAIN crawlera_sessions
    THEN /\ result = "KeyError"
         /\ UNCHANGED << request_vars, locked_sessions >>
    ELSE /\ session_header' = IF lookup
                              THEN [session_header EXCEPT ![r] = crawlera_sessions[cj]]
                              ELSE session_header
         /\ adapted' = adapt_request(r)
         /\ UNCHANGED next_uuid
         /\ IF cookiejar[r] = NoKey
            THEN /\ cookiejar' = [cookiejar EXCEPT ![r] = cj]
                 /\ locked_sessions' = locked_sessions \cup {cj}
                 /\ result = "True"
            ELSE /\ result = "WrongSessionError"
                 /\ UNCHANGED << cookiejar, locked_sessions >>

\* Mutant of assign_crawlera_session: the call without a cookiejar does not
\* fall back on the unlocked sessions.
assign_crawlera_session_no_reuse(r, arg, result) ==
    IF arg = NoKey
    THEN IF can_add_new_sessions
         THEN /\ init_request(r)
              /\ locked_sessions' = locked_sessions \cup {cookiejar'[r]}
              /\ result = "True"
         ELSE /\ result = "False"
              /\ UNCHANGED << request_vars, locked_sessions >>
    ELSE assign_existing(r, arg, result)

\* assign_crawlera_session(spider, request, cookiejar=arg); arg = NoKey is the
\* call without a cookiejar. random.choice is a free choice among the
\* available sessions.
assign_crawlera_session(r, arg, result) ==
    IF arg = NoKey
    THEN IF can_add_new_sessions
         THEN /\ init_request(r)
              /\ locked_sessions' = locked_sessions \cup {cookiejar'[r]}
              /\ result = "True"
         ELSE IF available_sessions # {}
              THEN \E cj \in available_sessions :
                       assign_existing(r, cj, result)
              ELSE /\ result = "False"
                   /\ UNCHANGED << request_vars, locked_sessions >>
    ELSE assign_existing(r, arg, result)

AssignResults == {"True", "False", "WrongSessionError", "KeyError"}

\* ------------------------------------------------ building a request
\* An exception raised by the assignment leaves the callback that is building
\* the request: the request is never yielded.
after_assign(result) ==
    IF result \in {"WrongSessionError", "KeyError"} THEN "dropped" ELSE "building"

Building == {r \in Requests : stage[r] = "building"}
Live == ~closed

\* A spider method constructs the next Request object. Its meta carries no
\* cookiejar, or the cookiejar of a session the spider knows, written by the
\* spider itself (meta={'cookiejar': ...}, the meta key of Scrapy's cookies
\* middleware that lines 115 and 132 test for).
CreateRequest(r, cj) ==
    /\ Live
    /\ stage[r] = "new"
    /\ Building = {}
    /\ \A q \in Requests : q < r => stage[q] # "new"
    /\ cj = NoKey \/ cj \in DOMAIN crawlera_sessions
    /\ cookiejar' = [cookiejar EXCEPT ![r] = cj]
    /\ stage' = [stage EXCEPT ![r] = "building"]
    /\ ops' = 0
    /\ last_call' = NoCall
    /\ spider_idle' = FALSE
    /\ orig_calls' = 0
    /\ UNCHANGED << config_vars, pool_vars, session_header, adapted,
                    next_uuid, gate_vars, defer_assign, response_session,
                    no_unlocked_sessions, closed, assert_failed, keyless_run >>

\* Mutant of InitRequest: a session is initiated only while one can be added.
InitRequest_capped(r) ==
    /\ Live
    /\ stage[r] = "building"
    /\ ops < MaxOps
    /\ IF MAX_PARALLEL_CRAWLERA_SESSIONS = << >>
       THEN TRUE
       ELSE Cardinality(DOMAIN crawlera_sessions) < MAX_PARALLEL_CRAWLERA_SESSIONS[1]
    /\ init_request(r)
    /\ ops' = ops + 1
    /\ last_call' = [op |-> "init_request", req |-> r, arg |-> NoKey, result |-> "ok"]
    /\ keyless_run' = -1
    /\ spider_idle' = FALSE
    /\ orig_calls' = 0
    /\ UNCHANGED << config_vars, pool_vars, gate_vars, stage, defer_assign,
                    response_session, no_unlocked_sessions, closed,
                    assert_failed >>

\* crawlera_session.init_request(request), also what init_start_requests
\* applies to every start request.
InitRequest(r) ==
    /\ Live
    /\ stage[r] = "building"
    /\ ops < MaxOps
    /\ init_request(r)
    /\ ops' = ops + 1
    /\ last_call' = [op |-> "init_request", req |-> r, arg |-> NoKey, result |-> "ok"]
    /\ keyless_run' = -1
    /\ spider_idle' = FALSE
    /\ orig_calls' = 0
    /\ UNCHANGED << config_vars, pool_vars, gate_vars, stage, defer_assign,
                    response_session, no_unlocked_sessions, closed,
                    assert_failed >>

\* crawlera_session.assign_crawlera_session(spider, request) called by the
\* spider on the request it is building.
AssignSession(r) ==
    /\ Live
    /\ stage[r] = "building"
    /\ ops < MaxOps
    /\ \E result \in AssignResults :
          /\ assign_crawlera_session(r, NoKey, result)
          /\ last_call' = [op |-> "assign", req |-> r, arg |-> NoKey, result |-> result]
          /\ stage' = [stage EXCEPT ![r] = after_assign(result)]
    /\ ops' = ops + 1
    /\ keyless_run' = IF keyless_run >= 0 /\ cookiejar[r] = NoKey
                      THEN keyless_run + 1 ELSE -1
    /\ spider_idle' = FALSE
    /\ orig_calls' = 0
    /\ UNCHANGED << config_vars, crawlera_sessions, gate_vars,
                    defer_assign, response_session, no_unlocked_sessions,
                    closed, assert_failed >>

\* follow_session's loop body, lines 92-95, for a request yielded by the
\* callback of p's response (a request with meta no_crawlera_session is one
\* for which this step is not taken).
FollowSession(p, r) ==
    /\ Live
    /\ stage[p] = "following"
    /\ stage[r] = "building"
    /\ ops < MaxOps
    /\ \E result \in AssignResults :
          /\ assign_crawlera_session(r, cookiejar[p], result)
          /\ last_call' = [op |-> "assign", req |-> r, arg |-> cookiejar[p], result |-> result]
          /\ stage' = [stage EXCEPT ![r] = after_assign(result)]
    /\ ops' = ops + 1
    /\ keyless_run' = -1
    /\ spider_idle' = FALSE
    /\ orig_calls' = 0
    /\ UNCHANGED << config_vars, crawlera_sessions, gate_vars,
                    defer_assign, response_session, no_unlocked_sessions,
                    closed, assert_failed >>

\* defer_assign_session's loop body, lines 152-156.
DeferAssignSession(r) ==
    /\ Live
    /\ stage[r] = "building"
    /\ ops < MaxOps
    /\ ~defer_assign[r]
    /\ defer_assign' = [defer_assign EXCEPT ![r] = TRUE]
    /\ ops' = ops + 1
    /\ last_call' = NoCall
    /\ spider_idle' = FALSE
    /\ orig_calls' = 0
    /\ UNCHANGED << config_vars, pool_vars, request_vars, gate_vars, stage,
                    response_session, no_unlocked_sessions, closed,
                    assert_failed, keyless_run >>

\* The yielded request reaches the scheduler.
Schedule(r) ==
    /\ Live
    /\ stage[r] = "building"
    /\ stage' = [stage EXCEPT ![r] = "queued"]
    /\ scheduler' = scheduler \cup {r}
    /\ ops' = 0
    /\ last_call' = NoCall
    /\ spider_idle' = FALSE
    /\ orig_calls' = 0
    /\ UNCHANGED << config_vars, pool_vars, request_vars, retained_requests,
                    pulled, times_returned, was_retained, defer_assign, response_session,
                    no_unlocked_sessions, closed, assert_failed, keyless_run >>

\* ------------------------------------------- CrawleraSessionCookiesMiddleware
\* Requests the engine still has work for: being built by a callback,
\* released to the downloader, downloading, or with a response being handled.
InFlight == {r \in Requests :
                stage[r] \in {"building", "released", "downloading",
                              "responded", "following"}}

\* Mutant of can_enqueue_request: any known session counts, locked or not.
can_enqueue_request_any_session(r) ==
    \/ cookiejar[r] # NoKey
    \/ can_add_new_sessions
    \/ DOMAIN crawlera_sessions # {}

\* Mutant of can_enqueue_request: the unlocked sessions are not looked at.
can_enqueue_request_no_reuse(r) ==
    \/ cookiejar[r] # NoKey
    \/ can_add_new_sessions

\* _can_enqueue_request(request)
can_enqueue_request(r) ==
    \/ cookiejar[r] # NoKey
    \/ can_add_new_sessions
    \/ available_sessions # {}

\* Mutant of RemoveAt: the returned request stays in the list.
RemoveAt_kept(seq, i) == seq

\* list.remove(request), line 207, for the request at index i.
RemoveAt(seq, i) == SubSeq(seq, 1, i - 1) \o SubSeq(seq, i + 1, Len(seq))

\* Mutant of first_enqueueable: the last retained request that can be
\* enqueued is taken.
first_enqueueable_last ==
    LET ok == {i \in 1..Len(retained_requests) :
                  can_enqueue_request(retained_requests[i])}
    IN IF ok = {} THEN 0 ELSE CHOOSE i \in ok : \A j \in ok : i >= j

\* The index of the first retained request that can be enqueued, 0 if none:
\* the loop of lines 205-208.
first_enqueueable ==
    LET ok == {i \in 1..Len(retained_requests) :
                  can_enqueue_request(retained_requests[i])}
    IN IF ok = {} THEN 0 ELSE CHOOSE i \in ok : \A j \in ok : i <= j

\* The request next_request returns goes to the downloader. process_request
\* changes nothing for a request without a deferred assignment, so such a
\* request is downloading at once.
release(r) ==
    /\ times_returned' = [times_returned EXCEPT ![r] = @ + 1]
    /\ stage' = [stage EXCEPT ![r] =
                    IF defer_assign[r] THEN "released" ELSE "downloading"]

\* Mutant of next_request: the original scheduler is asked first, and the
\* retained requests are looked at only when it has nothing.
next_request_scheduler_first(result) ==
    /\ orig_calls' = 1
    /\ IF scheduler # {}
       THEN \E new_request \in scheduler :
            /\ scheduler' = scheduler \ {new_request}
            /\ pulled' = pulled \cup {new_request}
            /\ IF can_enqueue_request(new_request)
               THEN /\ result = new_request
                    /\ release(new_request)
                    /\ UNCHANGED << retained_requests, was_retained >>
               ELSE /\ result = 0
                    /\ retained_requests' = Append(retained_requests, new_request)
                    /\ stage' = [stage EXCEPT ![new_request] = "retained"]
                    /\ was_retained' = was_retained \cup {new_request}
                    /\ UNCHANGED times_returned
       ELSE IF first_enqueueable # 0
       THEN /\ result = retained_requests[first_enqueueable]
            /\ retained_requests' = RemoveAt(retained_requests, first_enqueueable)
            /\ release(result)
            /\ UNCHANGED << scheduler, pulled, was_retained >>
       ELSE /\ result = 0
            /\ UNCHANGED << gate_vars, stage >>

\* _next_request(), the replacement of scheduler.next_request; result is the
\* request it returns, 0 for None. The original next_request (line 210) hands
\* out any request the scheduler holds, or None when it holds none.
next_request(result) ==
    IF first_enqueueable # 0
    THEN /\ result = retained_requests[first_enqueueable]
         /\ retained_requests' = RemoveAt(retained_requests, first_enqueueable)
         /\ release(result)
         /\ orig_calls' = 0
         /\ UNCHANGED << scheduler, pulled, was_retained >>
    ELSE /\ orig_calls' = 1
         /\ IF scheduler = {}
            THEN /\ result = 0
                 /\ UNCHANGED << gate_vars, stage >>
            ELSE \E new_request \in scheduler :
                 /\ scheduler' = scheduler \ {new_request}
                 /\ pulled' = pulled \cup {new_request}
                 /\ IF can_enqueue_request(new_request)
                    THEN /\ result = new_request
                         /\ release(new_request)
                         /\ UNCHANGED << retained_requests, was_retained >>
                    ELSE /\ result = 0
                         /\ retained_requests' = Append(retained_requests, new_request)
                         /\ stage' = [stage EXCEPT ![new_request] = "retained"]
                         /\ was_retained' = was_retained \cup {new_request}
                         /\ UNCHANGED times_returned

\* The engine asks the scheduler for the next request; when it gets None it
\* checks whether the spider is idle (nothing scheduled, nothing in flight).
NextRequest ==
    /\ Live
    /\ \E result \in Requests \cup {0} :
          /\ next_request(result)
          /\ spider_idle' = (result = 0 /\ scheduler' = {} /\ InFlight = {})
    /\ last_call' = NoCall
    /\ UNCHANGED << config_vars, pool_vars, request_vars, defer_assign,
                    response_session, ops, no_unlocked_sessions, closed,
                    assert_failed, keyless_run >>

\* Mutant of ProcessRequest: the rejection is not counted in the stats.
ProcessRequest_uncounted(r) ==
    /\ Live
    /\ stage[r] = "released"
    /\ defer_assign[r]
    /\ \E result \in AssignResults :
          /\ assign_crawlera_session(r, NoKey, result)
          /\ last_call' = [op |-> "process_request", req |-> r, arg |-> NoKey, result |-> result]
          /\ defer_assign' = IF result = "True"
                             THEN [defer_assign EXCEPT ![r] = FALSE]
                             ELSE defer_assign
          /\ no_unlocked_sessions' = no_unlocked_sessions
          /\ stage' = [stage EXCEPT ![r] =
                          IF result = "True" THEN "downloading" ELSE "dropped"]
    /\ keyless_run' = IF keyless_run >= 0 /\ cookiejar[r] = NoKey
                      THEN keyless_run + 1 ELSE -1
    /\ spider_idle' = FALSE
    /\ orig_calls' = 0
    /\ UNCHANGED << config_vars, crawlera_sessions, gate_vars,
                    response_session, ops, closed, assert_failed >>

\* process_request(request, spider) for a request that carries a deferred
\* assignment. IgnoreRequest is raised when the assignment returns False;
\* WrongSessionError leaves the handler as it is raised. Either way the
\* request is not downloaded.
ProcessRequest(r) ==
    /\ Live
    /\ stage[r] = "released"
    /\ defer_assign[r]
    /\ \E result \in AssignResults :
          /\ assign_crawlera_session(r, NoKey, result)
          /\ last_call' = [op |-> "process_request", req |-> r, arg |-> NoKey, result |-> result]
          /\ defer_assign' = IF result = "True"
                             THEN [defer_assign EXCEPT ![r] = FALSE]
                             ELSE defer_assign
          /\ no_unlocked_sessions' = IF result = "False"
                                     THEN no_unlocked_sessions + 1
                                     ELSE no_unlocked_sessions
          /\ stage' = [stage EXCEPT ![r] =
                          IF result = "True" THEN "downloading" ELSE "dropped"]
    /\ keyless_run' = IF keyless_run >= 0 /\ cookiejar[r] = NoKey
                      THEN keyless_run + 1 ELSE -1
    /\ spider_idle' = FALSE
    /\ orig_calls' = 0
    /\ UNCHANGED << config_vars, crawlera_sessions, gate_vars,
                    response_session, ops, closed, assert_failed >>

\* process_response(request, response, spider); the server's response carries
\* header (a session id) or no X-Crawlera-Session at all. A KeyError ends the
\* handling of the response.
ProcessResponse(r, header) ==
    /\ Live
    /\ stage[r] = "downloading"
    /\ IF header # NoHeader /\ cookiejar[r] = NoKey
       THEN /\ stage' = [stage EXCEPT ![r] = "done"]
            /\ UNCHANGED << crawlera_sessions, response_session >>
       ELSE /\ crawlera_sessions' = IF header # NoHeader
                                    THEN setdefault(cookiejar[r], header)
                                    ELSE crawlera_sessions
            /\ response_session' = [response_session EXCEPT ![r] = header]
            /\ stage' = [stage EXCEPT ![r] = "responded"]
    /\ last_call' = NoCall
    /\ keyless_run' = -1
    /\ spider_idle' = FALSE
    /\ orig_calls' = 0
    /\ UNCHANGED << config_vars, locked_sessions, request_vars, gate_vars,
                    defer_assign, ops, no_unlocked_sessions, closed,
                    assert_failed >>

\* ---------------------------------------- CrawleraSessionRedirectMiddleware
\* Mutant of redirect_header: the follow-up keeps the header of the request.
redirect_header_kept(r) == session_header[r]

\* The X-Crawlera-Session header of the follow-up request of a redirect,
\* lines 173-175: the response's header when it has one, else the header
\* the redirected request carried (RedirectMiddleware copies the headers).
redirect_header(r) ==
    IF response_session[r] # NoHeader
    THEN response_session[r]
    ELSE session_header[r]

\* process_response(request, response, spider) for a response that is a
\* redirect: RedirectMiddleware builds the follow-up q as a copy of request r
\* (meta and headers) with the new url and schedules it; the response reaches
\* no callback. The cookies middleware has handled the response before.
Redirect(r, q) ==
    /\ Live
    /\ stage[r] = "responded"
    /\ stage[q] = "new"
    /\ \A n \in Requests : n < q => stage[n] # "new"
    /\ cookiejar' = [cookiejar EXCEPT ![q] = cookiejar[r]]
    /\ session_header' = [session_header EXCEPT ![q] = redirect_header(r)]
    /\ adapted' = [adapted EXCEPT ![q] = adapted[r]]
    /\ defer_assign' = [defer_assign EXCEPT ![q] = defer_assign[r]]
    /\ stage' = [stage EXCEPT ![r] = "done", ![q] = "queued"]
    /\ scheduler' = scheduler \cup {q}
    /\ response_session' = [response_session EXCEPT ![r] = NoHeader]
    /\ last_call' = NoCall
    /\ keyless_run' = -1
    /\ spider_idle' = FALSE
    /\ orig_calls' = 0
    /\ UNCHANGED << config_vars, pool_vars, next_uuid, retained_requests,
                    pulled, times_returned, was_retained, ops,
                    no_unlocked_sessions, closed, assert_failed >>

\* ------------------------------------------------------- spider callbacks
\* How the callback that receives the response is decorated; of two
\* decorators the first named is the outer one, whose code runs first.
CallbackKinds == {"plain", "unlock", "follow", "unlock_follow", "follow_unlock"}

\* Mutant of unlock_session: every session is unlocked.
unlock_session_all(p, locked) == locked \ Keys

\* unlock_session's wrapper, line 162, on the locked set it finds.
unlock_session(p, locked) == locked \ {cookiejar[p]}

\* The response of p is handed to its callback: the wrappers of
\* unlock_session (line 162) and follow_session (lines 83-90) run before the
\* callback's own code. A wrapper that raises ends the callback. A callback
\* under follow_session goes on to yield requests (FollowSession); any other
\* is over as far as the sessions are concerned.
Callback(p, kind) ==
    LET hasKey == cookiejar[p] # NoKey
        hasHeader == response_session[p] # NoHeader
        unlocks == kind \in {"unlock", "unlock_follow", "follow_unlock"}
        follows == kind \in {"follow", "unlock_follow", "follow_unlock"}
        error ==
            CASE kind = "plain" -> "ok"
              [] ~hasKey /\ kind \in {"unlock", "unlock_follow"} -> "KeyError"
              [] ~hasKey -> "SessionNotInitializedError"
              [] follows /\ ~hasHeader -> "KeyError"
              [] OTHER -> "ok"
        \* the discard of line 162 has run unless an earlier line raised
        discarded == unlocks /\ hasKey /\ (error = "ok" \/ kind = "unlock_follow")
        following == follows /\ error = "ok"
    IN
    /\ Live
    /\ stage[p] = "responded"
    /\ locked_sessions' = IF discarded
                          THEN unlock_session(p, locked_sessions)
                          ELSE locked_sessions
    /\ crawlera_sessions' = IF following
                            THEN setdefault(cookiejar[p], response_session[p])
                            ELSE crawlera_sessions
    /\ stage' = [stage EXCEPT ![p] = IF following THEN "following" ELSE "done"]
    /\ response_session' = IF following
                           THEN response_session
                           ELSE [response_session EXCEPT ![p] = NoHeader]
    /\ last_call' = IF discarded
                    THEN [op |-> "unlock_session", req |-> p,
                          arg |-> cookiejar[p], result |-> "ok"]
                    ELSE NoCall
    /\ keyless_run' = -1
    /\ spider_idle' = FALSE
    /\ orig_calls' = 0
    /\ UNCHANGED << config_vars, request_vars, gate_vars, defer_assign,
                    ops, no_unlocked_sessions, closed, assert_failed >>

\* The generator of a callback under follow_session is exhausted.
CallbackDone(p) ==
    /\ Live
    /\ stage[p] = "following"
    /\ Building = {}
    /\ stage' = [stage EXCEPT ![p] = "done"]
    /\ response_session' = [response_session EXCEPT ![p] = NoHeader]
    /\ last_call' = NoCall
    /\ spider_idle' = FALSE
    /\ orig_calls' = 0
    /\ UNCHANGED << config_vars, pool_vars, request_vars, gate_vars,
                    defer_assign, ops, no_unlocked_sessions,
                    closed, assert_failed, keyless_run >>

\* spider_closed(spider), sent by the engine once it has found the spider idle.
SpiderClosed ==
    /\ Live
    /\ spider_idle
    /\ closed' = TRUE
    /\ assert_failed' = (retained_requests # << >>)
    /\ last_call' = NoCall
    /\ UNCHANGED << config_vars, pool_vars, request_vars, gate_vars, stage,
                    defer_assign, response_session, ops, no_unlocked_sessions,
                    spider_idle, orig_calls, keyless_run >>

Next ==
    \/ \E r \in Requests, cj \in Keys \cup {NoKey} : CreateRequest(r, cj)
    \/ \E r \in Requests : InitRequest(r)
    \/ \E r \in Requests : AssignSession(r)
    \/ \E p, r \in Requests : FollowSession(p, r)
    \/ \E r \in Requests : DeferAssignSession(r)
    \/ \E r \in Requests : Schedule(r)
    \/ NextRequest
    \/ \E r \in Requests : ProcessRequest(r)
    \/ \E r \in Requests, header \in ServerTokens \cup {NoHeader} :
          ProcessResponse(r, header)
    \/ \E r, q \in Requests : Redirect(r, q)
    \/ \E p \in Requests, kind \in CallbackKinds : Callback(p, kind)
    \/ \E p \in Requests : CallbackDone(p)
    \/ SpiderClosed

Spec == Init /\ [][Next]_vars

\* The runs in which sessions are created by assign_crawlera_session alone:
\* no direct init_request (init_start_requests) call.
NextBind ==
    \/ \E r \in Requests, cj \in Keys \cup {NoKey} : CreateRequest(r, cj)
    \/ \E r \in Requests : AssignSession(r)
    \/ \E p, r \in Requests : FollowSession(p, r)
    \/ \E r \in Requests : DeferAssignSession(r)
    \/ \E r \in Requests : Schedule(r)
    \/ NextRequest
    \/ \E r \in Requests : ProcessRequest(r)
    \/ \E r \in Requests, header \in ServerTokens \cup {NoHeader} :
          ProcessResponse(r, header)
    \/ \E r, q \in Requests : Redirect(r, q)
    \/ \E p \in Requests, kind \in CallbackKinds : Callback(p, kind)
    \/ \E p \in Requests : CallbackDone(p)
    \/ SpiderClosed

SpecBind == Init /\ [][NextBind]_vars

\* The runs of sessions shared by follow-up requests: every request is bound
\* by assign_crawlera_session, by the spider or by follow_session, and every
\* callback is decorated with both unlock_session and follow_session.
FollowKinds == {"unlock_follow", "follow_unlock"}

InitFollow == InitWith(1..MaxFollowRequests)

NextFollow ==
    \/ \E r \in Requests : CreateRequest(r, NoKey)
    \/ \E r \in Requests : AssignSession(r)
    \/ \E p, r \in Requests : FollowSession(p, r)
    \/ \E r \in Requests : Schedule(r)
    \/ NextRequest
    \/ \E r \in Requests, header \in ServerTokens \cup {NoHeader} :
          ProcessResponse(r, header)
    \/ \E p \in Requests, kind \in FollowKinds : Callback(p, kind)
    \/ \E p \in Requests : CallbackDone(p)

SpecFollow == InitFollow /\ [][NextFollow]_vars

\* ======================================================== properties
\* The step is a call of assign_crawlera_session on request r: by the spider
\* (directly or under follow_session) or, deferred, by process_request.
BindStep(r) ==
    /\ last_call'.req = r
    /\ \/ last_call'.op = "assign" /\ ops' = ops + 1
       \/ /\ last_call'.op = "process_request"
          /\ stage[r] = "released" /\ stage'[r] # "released"

KeylessBindStep(r) == BindStep(r) /\ last_call'.arg = NoKey

\* The wrapped next_request returns request r in this step.
ReturnStep(r) == times_returned'[r] = times_returned[r] + 1

\* The eligibility predicate of the admission gate, on the current sessions.
Eligible(r) ==
    \/ cookiejar[r] # NoKey
    \/ MAX_PARALLEL_CRAWLERA_SESSIONS = << >>
    \/ Cardinality(DOMAIN crawlera_sessions) < MAX_PARALLEL_CRAWLERA_SESSIONS[1]
    \/ (DOMAIN crawlera_sessions) \ locked_sessions # {}

Occurrences(seq, r) == Cardinality({i \in 1..Len(seq) : seq[i] = r})

\* C1: when MAX_PARALLEL_CRAWLERA_SESSIONS is set, the session map never holds
\* more entries than it allows, whatever binds, responses and unlocks happen.
C1_PoolWithinCapacity ==
    MAX_PARALLEL_CRAWLERA_SESSIONS # << >> =>
        Cardinality(DOMAIN crawlera_sessions) <= MAX_PARALLEL_CRAWLERA_SESSIONS[1]

\* C2: starting from an empty pool with capacity N, the first N consecutive
\* keyless binds each return True with a fresh, locked key; the (N+1)-th
\* returns False, assigns nothing and creates no key.
C2_NthBindBoundNextDeferred ==
    (/\ MAX_PARALLEL_CRAWLERA_SESSIONS # << >>
     /\ keyless_run >= 1
     /\ keyless_run <= MAX_PARALLEL_CRAWLERA_SESSIONS[1] + 1
     /\ last_call.op \in {"assign", "process_request"}) =>
        LET r == last_call.req
            N == MAX_PARALLEL_CRAWLERA_SESSIONS[1] IN
        IF keyless_run <= N
        THEN /\ last_call.result = "True"
             /\ cookiejar[r] # NoKey
             /\ \A q \in Requests \ {r} : cookiejar[q] # cookiejar[r]
             /\ cookiejar[r] \in locked_sessions
        ELSE /\ last_call.result = "False"
             /\ cookiejar[r] = NoKey
             /\ next_uuid = N + 1

\* C3: the locked session keys are always keys of the session map.
C3_LockedInPool == locked_sessions \subseteq DOMAIN crawlera_sessions

\* C4: a request the wrapped next_request returns is eligible on the sessions
\* as they are when it is returned: it carries a cookiejar, or a session can
\* be added, or some session is unlocked.
C4_ReturnedIsEligible ==
    [][\A r \in Requests : ReturnStep(r) => Eligible(r)']_vars

\* C4 witness: a request without a cookiejar has been returned on the strength
\* of an unlocked session alone.
C4_Witness ==
    \E r \in Requests :
        /\ times_returned[r] = 1
        /\ stage[r] \in {"released", "downloading"}
        /\ cookiejar[r] = NoKey
        /\ ~can_add_new_sessions
        /\ available_sessions # {}

\* C5: every request pulled from the original scheduler has been returned
\* exactly once or is held exactly once in retained_requests, never both, and
\* retained_requests holds nothing else.
C5_NoLossNoDuplication ==
    /\ \A r \in pulled :
          \/ times_returned[r] = 1 /\ Occurrences(retained_requests, r) = 0
          \/ times_returned[r] = 0 /\ Occurrences(retained_requests, r) = 1
    /\ \A r \in Requests \ pulled :
          times_returned[r] = 0 /\ Occurrences(retained_requests, r) = 0

\* C5 witness: of the requests pulled, one was returned after having been
\* retained and another is still retained.
C5_Witness ==
    \E r, q \in pulled :
        /\ r \in was_retained /\ times_returned[r] = 1
        /\ Occurrences(retained_requests, q) = 1

\* C6: once a retained request is eligible, the next request the wrapped
\* next_request returns is that request or one retained before it: nothing is
\* pulled from the original scheduler, and no request retained after it (hence
\* pulled after it was retained) is returned, while it waits eligible.
C6_RetainedBeforeNewlyPulled ==
    [][\A i \in 1..Len(retained_requests) :
          Eligible(retained_requests[i]) =>
              /\ pulled' = pulled
              /\ \A r \in Requests :
                    ReturnStep(r) =>
                        \E j \in 1..i : retained_requests[j] = r]_vars

\* C6 witness: a request that was retained has been returned while a request
\* scheduled meanwhile is still waiting in the original scheduler.
C6_Witness ==
    \E r \in was_retained :
        /\ times_returned[r] = 1
        /\ scheduler # {}

C8_ReuseBindsAvailableKey ==
    [][\A r \in Requests :
          (/\ KeylessBindStep(r)
           /\ cookiejar[r] = NoKey
           /\ MAX_PARALLEL_CRAWLERA_SESSIONS # << >>
           /\ Cardinality(DOMAIN crawlera_sessions) >= MAX_PARALLEL_CRAWLERA_SESSIONS[1]
           /\ (DOMAIN crawlera_sessions) \ locked_sessions # {}) =>
              LET k == cookiejar'[r] IN
              /\ last_call'.result = "True"
              /\ k \in DOMAIN crawlera_sessions
              /\ k \notin locked_sessions
              /\ session_header'[r] = crawlera_sessions[k]
              /\ crawlera_sessions' = crawlera_sessions
              /\ locked_sessions' = locked_sessions \cup {k}]_vars

\* C8 witness: a request got an existing session by a keyless bind at
\* dispatch time (its header holds a session id of the server, not 'create').
C8_Witness ==
    \E r \in Requests :
        /\ last_call = [op |-> "process_request", req |-> r, arg |-> NoKey, result |-> "True"]
        /\ r \in was_retained
        /\ cookiejar[r] \in locked_sessions
        /\ session_header[r] \in ServerTokens
        /\ session_header[r] = crawlera_sessions[cookiejar[r]]

\* C9: a bind of a request that already carries a cookiejar other than the
\* one the call would assign (the cookiejar passed, a newly generated one, or
\* one of the unlocked ones) ends in WrongSessionError.
C9_RebindRaises ==
    [][\A r \in Requests :
          (/\ BindStep(r)
           /\ cookiejar[r] # NoKey
           /\ IF last_call'.arg # NoKey
              THEN last_call'.arg # cookiejar[r]
              ELSE \/ can_add_new_sessions
                   \/ (available_sessions # {} /\ cookiejar[r] \notin available_sessions)) =>
              last_call'.result = "WrongSessionError"]_vars

\* C10: the cookiejar of a request, once set, never changes.
C10_KeyAssignedOnce ==
    [][\A r \in Requests :
          cookiejar[r] # NoKey => cookiejar'[r] = cookiejar[r]]_vars

\* C10 witness: assign_crawlera_session has been called on a request that
\* already carried a cookiejar, and the request still carries it.
C10_Witness ==
    \E r \in Requests :
        /\ last_call.req = r
        /\ last_call.result = "WrongSessionError"
        /\ cookiejar[r] # NoKey

\* The step is process_response storing the session id of r's response.
ResponseStep(r) ==
    /\ stage[r] = "downloading"
    /\ stage'[r] = "responded"
    /\ response_session'[r] # NoHeader

\* C11: the session id stored for a cookiejar is the first one a response
\* brought for it: the first response with a session id for a request of
\* cookiejar k stores that id under k, and no step, in particular no later
\* response with another id, changes or removes what is stored under k.
C11_FirstTokenKept ==
    [][/\ \A k \in DOMAIN crawlera_sessions :
             /\ k \in DOMAIN crawlera_sessions'
             /\ crawlera_sessions'[k] = crawlera_sessions[k]
       /\ \A r \in Requests :
             (ResponseStep(r) /\ cookiejar[r] \notin DOMAIN crawlera_sessions) =>
                 /\ cookiejar[r] \in DOMAIN crawlera_sessions'
                 /\ crawlera_sessions'[cookiejar[r]] = response_session'[r]]_vars

\* C11 witness: a response has been handled that brought, for a cookiejar with
\* a stored session id, an id different from the stored one.
C11_Witness ==
    \E r \in Requests :
        /\ stage[r] = "responded"
        /\ response_session[r] \in ServerTokens
        /\ cookiejar[r] \in DOMAIN crawlera_sessions
        /\ crawlera_sessions[cookiejar[r]] # response_session[r]

\* The step is process_request running the deferred assignment of r.
DispatchStep(r) ==
    /\ last_call'.op = "process_request"
    /\ last_call'.req = r
    /\ stage[r] = "released"
    /\ stage'[r] # "released"
    /\ defer_assign[r]

\* C12: when process_request runs the deferred assignment of a request and
\* it returns False (as it does whenever no session can be added and none is
\* unlocked), the request is dropped, the stats counter grows by exactly one,
\* the sessions and the locked set stay as they were and the spider goes on;
\* when it returns True, the request goes on to the downloader with a locked
\* cookiejar and without the deferred-assignment marker.
C12_DeferredBindAtDispatch ==
    [][\A r \in Requests :
          DispatchStep(r) =>
              /\ (/\ MAX_PARALLEL_CRAWLERA_SESSIONS # << >>
                  /\ Cardinality(DOMAIN crawlera_sessions) >= MAX_PARALLEL_CRAWLERA_SESSIONS[1]
                  /\ DOMAIN crawlera_sessions \subseteq locked_sessions) =>
                     last_call'.result = "False"
              /\ last_call'.result = "False" =>
                     /\ stage'[r] = "dropped"
                     /\ no_unlocked_sessions' = no_unlocked_sessions + 1
                     /\ crawlera_sessions' = crawlera_sessions
                     /\ locked_sessions' = locked_sessions
                     /\ cookiejar'[r] = cookiejar[r]
                     /\ ~closed' /\ ~assert_failed'
              /\ last_call'.result = "True" =>
                     /\ stage'[r] = "downloading"
                     /\ cookiejar'[r] # NoKey
                     /\ cookiejar'[r] \in locked_sessions'
                     /\ ~defer_assign'[r]
                     /\ no_unlocked_sessions' = no_unlocked_sessions]_vars

\* C12 witness: a request with a deferred assignment has just been dropped at
\* dispatch because every session was locked and none could be added.
C12_Witness ==
    \E r \in Requests :
        /\ last_call = [op |-> "process_request", req |-> r, arg |-> NoKey,
                        result |-> "False"]
        /\ stage[r] = "dropped"
        /\ defer_assign[r]
        /\ no_unlocked_sessions = 1
        /\ crawlera_sessions # << >>
        /\ DOMAIN crawlera_sessions \subseteq locked_sessions

\* The step is a call of init_request on request r.
InitStep(r) ==
    /\ last_call'.op = "init_request"
    /\ last_call'.req = r
    /\ ops' = ops + 1

\* C13: init_request can be called on a request being built whatever the
\* sessions are, also when no session can be added and every session is
\* locked; on a request without cookiejar it sets a newly generated cookiejar
\* (carried by no other request, unknown to the session map and the locked
\* set) and the header 'create', and it leaves the session map and the locked
\* set as they were.
C13_InitRequestAlwaysSucceeds ==
    /\ [](\A r \in Requests :
            (Live /\ stage[r] = "building" /\ ops < MaxOps) =>
                ENABLED InitRequest(r))
    /\ [][\A r \in Requests :
            (InitStep(r) /\ cookiejar[r] = NoKey) =>
                /\ cookiejar'[r] # NoKey
                /\ \A q \in Requests \ {r} : cookiejar[q] # cookiejar'[r]
                /\ cookiejar'[r] \notin (DOMAIN crawlera_sessions) \cup locked_sessions
                /\ session_header'[r] = "create"
                /\ crawlera_sessions' = crawlera_sessions
                /\ locked_sessions' = locked_sessions]_vars

\* C13 witness: init_request has just given a request a cookiejar and the
\* header 'create' while no session could be added and every session was
\* locked.
C13_Witness ==
    \E r \in Requests :
        /\ last_call = [op |-> "init_request", req |-> r, arg |-> NoKey,
                        result |-> "ok"]
        /\ cookiejar[r] = next_uuid - 1
        /\ session_header[r] = "create"
        /\ crawlera_sessions # << >>
        /\ ~can_add_new_sessions
        /\ available_sessions = {}

\* The step is the redirect middleware answering r's response with the
\* follow-up request q.
RedirectStep(r, q) ==
    /\ stage[r] = "responded" /\ stage'[r] = "done"
    /\ stage[q] = "new" /\ stage'[q] = "queued"

\* C14: on every hop of a chain of redirects, the follow-up request made for
\* a redirect response that carries X-Crawlera-Session carries that
\* response's header value.
C14_RedirectKeepsSessionHeader ==
    [][\A r, q \in Requests :
          (RedirectStep(r, q) /\ response_session[r] # NoHeader) =>
              /\ session_header'[q] = response_session[r]
              /\ cookiejar'[q] = cookiejar[r]]_vars

\* C14 witness: the third request of a session is the follow-up of a
\* redirect: it waits in the scheduler with the session id the redirect
\* response carried, which is not the id the session map holds for its
\* cookiejar (the id the second request was sent with).
C14_Witness ==
    \E r1, r2, r3 \in Requests :
        /\ r1 < r2 /\ r2 < r3
        /\ cookiejar[r1] \in DOMAIN crawlera_sessions
        /\ cookiejar[r2] = cookiejar[r1] /\ cookiejar[r3] = cookiejar[r1]
        /\ stage[r1] = "done" /\ stage[r2] = "done" /\ stage[r3] = "queued"
        /\ session_header[r1] = "create"
        /\ session_header[r2] = crawlera_sessions[cookiejar[r1]]
        /\ session_header[r3] \in ServerTokens \ {session_header[r2]}

\* C15: retained requests leave retained_requests in the order they entered
\* it. The list grows at its tail only and shrinks only by the request
\* returned, and no request is returned while a request retained before it
\* (one standing before it in the list) is still retained.
C15_RetainedLeaveInOrder ==
    [][/\ \A j \in 2..Len(retained_requests) :
             ~ReturnStep(retained_requests[j])
       /\ \/ retained_requests' = retained_requests
          \/ \E q \in Requests \ was_retained :
                retained_requests' = Append(retained_requests, q)
          \/ /\ retained_requests # << >>
             /\ retained_requests' = Tail(retained_requests)
             /\ ReturnStep(Head(retained_requests))]_vars

\* C15 witness: of two retained requests the wrapped next_request has
\* returned one, which waits for its deferred assignment, while the other is
\* still retained although it can be enqueued too.
C15_Witness ==
    \E r \in was_retained :
        /\ stage[r] = "released"
        /\ times_returned[r] = 1
        /\ Len(retained_requests) = 1
        /\ retained_requests[1] \in was_retained \ {r}
        /\ Eligible(retained_requests[1])

\* C16: a call of the wrapped next_request calls the original next_request at
\* most once, so at most one request leaves the original scheduler, and not at
\* all while some retained request can be enqueued; a request pulled that
\* cannot be enqueued is appended at the tail of retained_requests and the
\* call returns no request.
C16_AtMostOneUpstreamPull ==
    [][/\ orig_calls' <= 1
       /\ pulled \subseteq pulled'
       /\ Cardinality(pulled' \ pulled) <= orig_calls'
       /\ (\E i \in 1..Len(retained_requests) : Eligible(retained_requests[i])) =>
              (orig_calls' = 0 /\ pulled' = pulled)
       /\ \A q \in pulled' \ pulled :
              ~Eligible(q) =>
                  /\ retained_requests' = Append(retained_requests, q)
                  /\ \A r \in Requests : ~ReturnStep(r)]_vars

\* C16 witness: the last call of the wrapped next_request asked the original
\* one once, and a request that could not be enqueued stands at the tail of
\* retained_requests behind an earlier one.
C16_Witness ==
    /\ orig_calls = 1
    /\ Len(retained_requests) = 2
    /\ retained_requests[2] \in pulled
    /\ ~Eligible(retained_requests[2])
    /\ times_returned[retained_requests[2]] = 0

\* The step is the wrapper of unlock_session running line 162 for the
\* response of p.
UnlockStep(p) ==
    /\ last_call'.op = "unlock_session"
    /\ last_call'.req = p
    /\ stage[p] = "responded"
    /\ stage'[p] # "responded"

\* C17: unlocking the cookiejar k of a response takes k, and nothing else,
\* out of the locked set: the session map is unchanged, every other cookiejar
\* is locked after the call exactly if it was before, nothing changes at all
\* when k was not locked, and k is among the available sessions afterwards
\* when the session map holds it.
C17_UnlockRemovesOnlyItsKey ==
    [][\A p \in Requests :
          UnlockStep(p) =>
              LET k == cookiejar[p] IN
              /\ last_call'.arg = k
              /\ crawlera_sessions' = crawlera_sessions
              /\ k \notin locked_sessions'
              /\ \A j \in Keys \ {k} :
                     j \in locked_sessions' <=> j \in locked_sessions
              /\ k \notin locked_sessions => locked_sessions' = locked_sessions
              /\ k \in DOMAIN crawlera_sessions =>
                     k \in (DOMAIN crawlera_sessions') \ locked_sessions']_vars

\* C17 witness: a session of the session map has just been unlocked and is
\* available, while another session is still locked.
C17_Witness ==
    /\ last_call.op = "unlock_session"
    /\ last_call.arg \in DOMAIN crawlera_sessions
    /\ last_call.arg \notin locked_sessions
    /\ locked_sessions # {}

\* C18 as stated: the deferred assignment of every request without cookiejar
\* that the wrapped next_request has returned succeeds when process_request
\* runs it, whatever happened since the request was returned.
C18_ReleasedDeferredAlwaysBound ==
    [][\A r \in Requests :
          (DispatchStep(r) /\ cookiejar[r] = NoKey) =>
              last_call'.result = "True"]_vars

\* C18 amended: the deferred assignment of a request without cookiejar
\* succeeds when, at the time process_request runs it, a session can be added
\* or some session is unlocked; what the gate found when it returned the
\* request does not count.
C18_BoundIfEligibleAtDispatch ==
    [][\A r \in Requests :
          (/\ DispatchStep(r)
           /\ cookiejar[r] = NoKey
           /\ \/ MAX_PARALLEL_CRAWLERA_SESSIONS = << >>
              \/ Cardinality(DOMAIN crawlera_sessions) < MAX_PARALLEL_CRAWLERA_SESSIONS[1]
              \/ (DOMAIN crawlera_sessions) \ locked_sessions # {}) =>
              /\ last_call'.result = "True"
              /\ stage'[r] = "downloading"
              /\ cookiejar'[r] \in locked_sessions']_vars

\* C18 witness: of two requests the gate had retained and then returned, one
\* got the unlocked session at dispatch, and the other has just been rejected
\* at dispatch because that session was locked again.
C18_Witness ==
    \E r, b \in was_retained :
        /\ r # b
        /\ stage[r] = "downloading"
        /\ cookiejar[r] \in locked_sessions
        /\ last_call = [op |-> "process_request", req |-> b, arg |-> NoKey,
                        result |-> "False"]
        /\ stage[b] = "dropped"

\* C19: a call of assign_crawlera_session without cookiejar never gives a
\* request the session of another request that is being downloaded (bound,
\* sent, its response not handled yet), in the runs where callbacks bind the
\* requests they yield to their own session and unlock it on each response.
C19_SessionUseExclusive ==
    [][\A r \in Requests :
          (/\ KeylessBindStep(r)
           /\ cookiejar[r] = NoKey
           /\ last_call'.result = "True") =>
              \A q \in Requests \ {r} :
                  stage[q] = "downloading" => cookiejar[q] # cookiejar'[r]]_vars

\* C20: a call of assign_crawlera_session that ends in WrongSessionError
\* leaves the session map, the locked set, and the request's cookiejar and
\* X-Crawlera-Session header as they were before the call.
C20_ConflictChangesNothing ==
    [][\A r \in Requests :
          (BindStep(r) /\ last_call'.result = "WrongSessionError") =>
              /\ crawlera_sessions' = crawlera_sessions
              /\ locked_sessions' = locked_sessions
              /\ cookiejar'[r] = cookiejar[r]
              /\ session_header'[r] = session_header[r]]_vars

====
